---- MODULE Spec2Model ----
(***************************************************************************)
(* ChainBallot: the whitelist-based Voting contract (src/unnamed/part_000) *)
(* as a state machine.  One action per external function.  A call whose    *)
(* require fails reverts: the EVM undoes every write and logs nothing, so  *)
(* the revert reason is a function of the state and the call, given by the *)
(* ...Check operator of each function.                                     *)
(***************************************************************************)
EXTENDS Integers, Sequences, FiniteSets, TLC

\* ------------------------------------------------------------------ bounds
\* Addresses are 1..NumAddr; 0 is address(0).
NumAddr == 2
\* Longest label list handed to setChoices.
MaxChoices == 2
\* Longest address list handed to setWhitelist; addToWhitelist is not called
\* once whitelistAddresses holds MaxTracked entries.
MaxTracked == 2
\* startElection is not called once electionId has reached MaxEpoch.
MaxEpoch == 2
\* block.timestamp stays within 1..MaxTime (the contract is deployed at 1).
MaxTime == 1
MaxTallyLen == 3
MaxVotes == 3
MaxLog == 5
MaxClock == 4
MaxRoster == 2

ZeroAddress == 0
Addresses == 1..NumAddr
AddrSpace == 0..NumAddr
\* The account that deploys the contract.
Deployer == 1
Titles == {"", "T"}
Labels == {"", "A", "B"}

\* ------------------------------------------------------------- revert reasons
OK == "ok"
OnlyOwnerMsg == "Only owner"
NotActiveMsg == "Election not active"
ActiveMsg == "Election active"
NoChoicesMsg == "No choices"
EmptyChoiceMsg == "Empty choice"
NoVotersMsg == "No voters"
InvalidVoterMsg == "Invalid voter"
NotWhitelistedMsg == "Not whitelisted"
AlreadyActiveMsg == "Election already active"
AlreadyEndedMsg == "Election already ended"
InvalidChoiceMsg == "Invalid choice"
AlreadyVotedMsg == "Already voted"
EmptyVoterMsg == "Empty voter"

\* -------------------------------------------------------------------- state
VARIABLES owner, electionActive, electionStart, electionEnd, pollTitle,
          electionId, choices, whitelistAddresses, isWhitelisted,
          lastVotedElection, lastVotedChoice, lastVotedAt,
          blockTimestamp, lastTx, voteCommits, startCount, endCount,
          returned, eventLog, txStatus, rosterVoters

storage == <<owner, electionActive, electionStart, electionEnd, pollTitle,
             electionId, choices, whitelistAddresses, isWhitelisted,
             lastVotedElection, lastVotedChoice, lastVotedAt>>
\* History of the run: committed votes per (identity, epoch), successful
\* starts and ends.  Written by the actions, read by no guard.
history == <<voteCommits, startCount, endCount>>
\* returned: what the last getWinner() call gave back, with the choices it
\* read; empty while no such call was made.  A view call writes nothing else.
\* eventLog: the events of the committed transactions, in commit order.
\* txStatus: the outcome of the last call, OK or its revert reason.
\* Both are kept by the specification SpecLog only; the others leave them.
\* rosterVoters: the array voters of the roster contract (truffle-dVoting;
\* the name voters is taken by setWhitelist's parameter), whose other
\* storage has the names and types of the whitelist contract's.
vars == <<storage, blockTimestamp, lastTx, history, returned, eventLog, txStatus, rosterVoters>>

\* ------------------------------------------------------------------ helpers
Range(s) == {s[k] : k \in DOMAIN s}
SeqsUpTo(S, n) == UNION {[1..k -> S] : k \in 0..n}
Choice(label, votes) == [label |-> label, votes |-> votes]

\* Events
PollTitleSet(title) == [name |-> "PollTitleSet", args |-> <<title>>]
ChoicesSet(count) == [name |-> "ChoicesSet", args |-> <<count>>]
WhitelistSet(count) == [name |-> "WhitelistSet", args |-> <<count>>]
WhitelistAdded(voter) == [name |-> "WhitelistAdded", args |-> <<voter>>]
WhitelistRemoved(voter) == [name |-> "WhitelistRemoved", args |-> <<voter>>]
ElectionStarted(startTime) == [name |-> "ElectionStarted", args |-> <<startTime>>]
ElectionEnded(endTime) == [name |-> "ElectionEnded", args |-> <<endTime>>]
VoteCast(voter, choiceIndex) == [name |-> "VoteCast", args |-> <<voter, choiceIndex>>]

\* A transaction that committed: the function, msg.sender and the events logged.
Tx(op, sender, arg, logs) == [op |-> op, sender |-> sender, arg |-> arg, logs |-> logs]

\* A reverted call: every write is undone and nothing is logged.
Reverted == UNCHANGED <<storage, history, lastTx>>

\* Modifiers
onlyOwner(sender) == IF sender = owner THEN OK ELSE OnlyOwnerMsg
onlyWhileActive == IF electionActive THEN OK ELSE NotActiveMsg
onlyWhenInactive == IF ~electionActive THEN OK ELSE ActiveMsg

\* Internal functions
resetVotes(cs) == [k \in DOMAIN cs |-> Choice(cs[k].label, 0)]

\* No clearing: the old flags stay.
keptFlags == isWhitelisted

clearedFlags ==
    [a \in AddrSpace |-> IF a \in Range(whitelistAddresses) THEN FALSE ELSE isWhitelisted[a]]

\* Mutant of activeWhitelistCount: every tracked entry counts, whatever its flag.
trackedWhitelistCount == Len(whitelistAddresses)

activeWhitelistCount ==
    Cardinality({k \in DOMAIN whitelistAddresses : isWhitelisted[whitelistAddresses[k]]})

\* The loop of setWhitelist over voters[k..], from flags and list as they stand.
RECURSIVE whitelistLoop(_, _, _, _)
whitelistLoop(voters, k, flags, list) ==
    IF k > Len(voters) THEN [flags |-> flags, list |-> list]
    ELSE IF flags[voters[k]]
         THEN whitelistLoop(voters, k + 1, flags, list)
         ELSE whitelistLoop(voters, k + 1, [flags EXCEPT ![voters[k]] = TRUE],
                            Append(list, voters[k]))

\* ---------------------------------------------------------------- Init
\* A constructor that leaves owner at its default value.
InitOwnerUnset ==
    /\ owner = ZeroAddress
    /\ electionActive = FALSE
    /\ electionStart = 0
    /\ electionEnd = 0
    /\ pollTitle = ""
    /\ electionId = 0
    /\ choices = <<>>
    /\ whitelistAddresses = <<>>
    /\ isWhitelisted = [a \in AddrSpace |-> FALSE]
    /\ lastVotedElection = [a \in AddrSpace |-> 0]
    /\ lastVotedChoice = [a \in AddrSpace |-> 0]
    /\ lastVotedAt = [a \in AddrSpace |-> 0]
    /\ blockTimestamp = 1
    /\ lastTx = Tx("constructor", Deployer, <<>>, <<>>)
    /\ voteCommits = [a \in Addresses |-> [e \in 0..MaxEpoch |-> 0]]
    /\ startCount = 0
    /\ endCount = 0
    /\ returned = <<>>
    /\ eventLog = <<>>
    /\ txStatus = OK
    /\ rosterVoters = <<>>

Init ==
    /\ owner = Deployer
    /\ electionActive = FALSE
    /\ electionStart = 0
    /\ electionEnd = 0
    /\ pollTitle = ""
    /\ electionId = 0
    /\ choices = <<>>
    /\ whitelistAddresses = <<>>
    /\ isWhitelisted = [a \in AddrSpace |-> FALSE]
    /\ lastVotedElection = [a \in AddrSpace |-> 0]
    /\ lastVotedChoice = [a \in AddrSpace |-> 0]
    /\ lastVotedAt = [a \in AddrSpace |-> 0]
    /\ blockTimestamp = 1
    /\ lastTx = Tx("constructor", Deployer, <<>>, <<>>)
    /\ voteCommits = [a \in Addresses |-> [e \in 0..MaxEpoch |-> 0]]
    /\ startCount = 0
    /\ endCount = 0
    /\ returned = <<>>
    /\ eventLog = <<>>
    /\ txStatus = OK
    /\ rosterVoters = <<>>

\* ---------------------------------------------------------------- actions
setPollTitleCheck(sender) ==
    IF onlyOwner(sender) # OK THEN onlyOwner(sender)
    ELSE onlyWhenInactive

setPollTitle(sender, title, t) ==
    /\ blockTimestamp' = t
    /\ IF setPollTitleCheck(sender) # OK
       THEN Reverted
       ELSE /\ pollTitle' = title
            /\ lastTx' = Tx("setPollTitle", sender, title, <<PollTitleSet(title)>>)
            /\ UNCHANGED <<owner, electionActive, electionStart, electionEnd, electionId,
                           choices, whitelistAddresses, isWhitelisted, lastVotedElection,
                           lastVotedChoice, lastVotedAt, history>>

\* The modifiers in the other order.
setChoicesCheckStateFirst(sender, labels) ==
    IF onlyWhenInactive # OK THEN onlyWhenInactive
    ELSE IF onlyOwner(sender) # OK THEN onlyOwner(sender)
    ELSE IF ~(Len(labels) > 0) THEN NoChoicesMsg
    ELSE IF \E k \in DOMAIN labels : labels[k] = "" THEN EmptyChoiceMsg
    ELSE OK

setChoicesCheck(sender, labels) ==
    IF onlyOwner(sender) # OK THEN onlyOwner(sender)
    ELSE IF onlyWhenInactive # OK THEN onlyWhenInactive
    ELSE IF ~(Len(labels) > 0) THEN NoChoicesMsg
    ELSE IF \E k \in DOMAIN labels : labels[k] = "" THEN EmptyChoiceMsg
    ELSE OK

\* No rollback: a blank label stops the loop and the labels pushed before
\* it stay in place of the old list.
setChoicesPartial(sender, labels, t) ==
    /\ blockTimestamp' = t
    /\ IF setChoicesCheck(sender, labels) = EmptyChoiceMsg
       THEN LET blank == CHOOSE k \in DOMAIN labels :
                            /\ labels[k] = ""
                            /\ \A j \in 1..(k - 1) : labels[j] # ""
            IN  /\ choices' = [k \in 1..(blank - 1) |-> Choice(labels[k], 0)]
                /\ UNCHANGED <<owner, electionActive, electionStart, electionEnd,
                               pollTitle, electionId, whitelistAddresses, isWhitelisted,
                               lastVotedElection, lastVotedChoice, lastVotedAt,
                               history, lastTx>>
       ELSE IF setChoicesCheck(sender, labels) # OK
       THEN Reverted
       ELSE /\ choices' = [k \in DOMAIN labels |-> Choice(labels[k], 0)]
            /\ lastTx' = Tx("setChoices", sender, labels, <<ChoicesSet(Len(labels))>>)
            /\ UNCHANGED <<owner, electionActive, electionStart, electionEnd, pollTitle,
                           electionId, whitelistAddresses, isWhitelisted, lastVotedElection,
                           lastVotedChoice, lastVotedAt, history>>

setChoices(sender, labels, t) ==
    /\ blockTimestamp' = t
    /\ IF setChoicesCheck(sender, labels) # OK
       THEN Reverted
       ELSE /\ choices' = [k \in DOMAIN labels |-> Choice(labels[k], 0)]
            /\ lastTx' = Tx("setChoices", sender, labels, <<ChoicesSet(Len(labels))>>)
            /\ UNCHANGED <<owner, electionActive, electionStart, electionEnd, pollTitle,
                           electionId, whitelistAddresses, isWhitelisted, lastVotedElection,
                           lastVotedChoice, lastVotedAt, history>>

setWhitelistCheck(sender, voters) ==
    IF onlyOwner(sender) # OK THEN onlyOwner(sender)
    ELSE IF onlyWhenInactive # OK THEN onlyWhenInactive
    ELSE IF ~(Len(voters) > 0) THEN NoVotersMsg
    ELSE IF \E k \in DOMAIN voters : voters[k] = ZeroAddress THEN InvalidVoterMsg
    ELSE OK

\* Replacing the list also zeroes the counts.
setWhitelistResetsVotes(sender, voters, t) ==
    /\ blockTimestamp' = t
    /\ IF setWhitelistCheck(sender, voters) # OK
       THEN Reverted
       ELSE LET after == whitelistLoop(voters, 1, clearedFlags, <<>>) IN
            /\ isWhitelisted' = after.flags
            /\ whitelistAddresses' = after.list
            /\ choices' = resetVotes(choices)
            /\ lastTx' = Tx("setWhitelist", sender, voters, <<WhitelistSet(Len(voters))>>)
            /\ UNCHANGED <<owner, electionActive, electionStart, electionEnd, pollTitle,
                           electionId, lastVotedElection, lastVotedChoice,
                           lastVotedAt, history>>

setWhitelist(sender, voters, t) ==
    /\ blockTimestamp' = t
    /\ IF setWhitelistCheck(sender, voters) # OK
       THEN Reverted
       ELSE LET after == whitelistLoop(voters, 1, clearedFlags, <<>>) IN
            /\ isWhitelisted' = after.flags
            /\ whitelistAddresses' = after.list
            /\ lastTx' = Tx("setWhitelist", sender, voters, <<WhitelistSet(Len(voters))>>)
            /\ UNCHANGED <<owner, electionActive, electionStart, electionEnd, pollTitle,
                           electionId, choices, lastVotedElection, lastVotedChoice,
                           lastVotedAt, history>>

\* Mutant of addToWhitelistCheck: without the onlyWhenInactive modifier.
addToWhitelistCheckAnytime(sender, voter) ==
    IF onlyOwner(sender) # OK THEN onlyOwner(sender)
    ELSE IF ~(voter # ZeroAddress) THEN InvalidVoterMsg
    ELSE OK

addToWhitelistCheck(sender, voter) ==
    IF onlyOwner(sender) # OK THEN onlyOwner(sender)
    ELSE IF onlyWhenInactive # OK THEN onlyWhenInactive
    ELSE IF ~(voter # ZeroAddress) THEN InvalidVoterMsg
    ELSE OK

\* Without the membership test: every accepted call pushes and logs.
addToWhitelistAlways(sender, voter, t) ==
    /\ blockTimestamp' = t
    /\ IF addToWhitelistCheck(sender, voter) # OK
       THEN Reverted
       ELSE /\ isWhitelisted' = [isWhitelisted EXCEPT ![voter] = TRUE]
            /\ whitelistAddresses' = Append(whitelistAddresses, voter)
            /\ lastTx' = Tx("addToWhitelist", sender, voter, <<WhitelistAdded(voter)>>)
            /\ UNCHANGED <<owner, electionActive, electionStart, electionEnd, pollTitle,
                           electionId, choices, lastVotedElection, lastVotedChoice,
                           lastVotedAt, history>>

\* Sets the flag without recording the address in the enumeration.
addToWhitelistUntracked(sender, voter, t) ==
    /\ blockTimestamp' = t
    /\ IF addToWhitelistCheck(sender, voter) # OK
       THEN Reverted
       ELSE IF ~isWhitelisted[voter]
       THEN /\ isWhitelisted' = [isWhitelisted EXCEPT ![voter] = TRUE]
            /\ lastTx' = Tx("addToWhitelist", sender, voter, <<WhitelistAdded(voter)>>)
            /\ UNCHANGED <<owner, electionActive, electionStart, electionEnd, pollTitle,
                           electionId, choices, whitelistAddresses, lastVotedElection,
                           lastVotedChoice, lastVotedAt, history>>
       ELSE /\ lastTx' = Tx("addToWhitelist", sender, voter, <<>>)
            /\ UNCHANGED <<storage, history>>

addToWhitelist(sender, voter, t) ==
    /\ blockTimestamp' = t
    /\ IF addToWhitelistCheck(sender, voter) # OK
       THEN Reverted
       ELSE IF ~isWhitelisted[voter]
       THEN /\ isWhitelisted' = [isWhitelisted EXCEPT ![voter] = TRUE]
            /\ whitelistAddresses' = Append(whitelistAddresses, voter)
            /\ lastTx' = Tx("addToWhitelist", sender, voter, <<WhitelistAdded(voter)>>)
            /\ UNCHANGED <<owner, electionActive, electionStart, electionEnd, pollTitle,
                           electionId, choices, lastVotedElection, lastVotedChoice,
                           lastVotedAt, history>>
       ELSE /\ lastTx' = Tx("addToWhitelist", sender, voter, <<>>)
            /\ UNCHANGED <<storage, history>>

removeFromWhitelistCheck(sender, voter) ==
    IF onlyOwner(sender) # OK THEN onlyOwner(sender)
    ELSE IF onlyWhenInactive # OK THEN onlyWhenInactive
    ELSE IF ~isWhitelisted[voter] THEN NotWhitelistedMsg
    ELSE OK

\* The entry is taken out of the enumeration array as well.
removeFromWhitelistDropsEntry(sender, voter, t) ==
    /\ blockTimestamp' = t
    /\ IF removeFromWhitelistCheck(sender, voter) # OK
       THEN Reverted
       ELSE /\ isWhitelisted' = [isWhitelisted EXCEPT ![voter] = FALSE]
            /\ whitelistAddresses' = SelectSeq(whitelistAddresses, LAMBDA x : x # voter)
            /\ lastTx' = Tx("removeFromWhitelist", sender, voter, <<WhitelistRemoved(voter)>>)
            /\ UNCHANGED <<owner, electionActive, electionStart, electionEnd, pollTitle,
                           electionId, choices, lastVotedElection,
                           lastVotedChoice, lastVotedAt, history>>

removeFromWhitelist(sender, voter, t) ==
    /\ blockTimestamp' = t
    /\ IF removeFromWhitelistCheck(sender, voter) # OK
       THEN Reverted
       ELSE /\ isWhitelisted' = [isWhitelisted EXCEPT ![voter] = FALSE]
            /\ lastTx' = Tx("removeFromWhitelist", sender, voter, <<WhitelistRemoved(voter)>>)
            /\ UNCHANGED <<owner, electionActive, electionStart, electionEnd, pollTitle,
                           electionId, choices, whitelistAddresses, lastVotedElection,
                           lastVotedChoice, lastVotedAt, history>>

\* Mutant of startElectionCheck: the voters require before the choices require.
startElectionCheckVotersFirst(sender) ==
    IF onlyOwner(sender) # OK THEN onlyOwner(sender)
    ELSE IF ~(~electionActive) THEN AlreadyActiveMsg
    ELSE IF ~(activeWhitelistCount > 0) THEN NoVotersMsg
    ELSE IF ~(Len(choices) > 0) THEN NoChoicesMsg
    ELSE OK

\* Without the two configuration requirements.
startElectionCheckUnconfigured(sender) ==
    IF onlyOwner(sender) # OK THEN onlyOwner(sender)
    ELSE IF ~(~electionActive) THEN AlreadyActiveMsg
    ELSE OK

startElectionCheck(sender) ==
    IF onlyOwner(sender) # OK THEN onlyOwner(sender)
    ELSE IF ~(~electionActive) THEN AlreadyActiveMsg
    ELSE IF ~(Len(choices) > 0) THEN NoChoicesMsg
    ELSE IF ~(activeWhitelistCount > 0) THEN NoVotersMsg
    ELSE OK

\* Mutant of startElection: _resetVotes() is not called.
startElectionKeepsVotes(sender, t) ==
    /\ blockTimestamp' = t
    /\ IF startElectionCheck(sender) # OK
       THEN Reverted
       ELSE /\ electionId' = electionId + 1
            /\ electionActive' = TRUE
            /\ electionStart' = t
            /\ electionEnd' = 0
            /\ lastTx' = Tx("startElection", sender, <<>>, <<ElectionStarted(t)>>)
            /\ startCount' = startCount + 1
            /\ UNCHANGED <<owner, pollTitle, choices, whitelistAddresses, isWhitelisted,
                           lastVotedElection, lastVotedChoice, lastVotedAt,
                           voteCommits, endCount>>

\* The end timestamp of the election before is left standing.
startElectionKeepsEnd(sender, t) ==
    /\ blockTimestamp' = t
    /\ IF startElectionCheck(sender) # OK
       THEN Reverted
       ELSE /\ choices' = resetVotes(choices)
            /\ electionId' = electionId + 1
            /\ electionActive' = TRUE
            /\ electionStart' = t
            /\ lastTx' = Tx("startElection", sender, <<>>, <<ElectionStarted(t)>>)
            /\ startCount' = startCount + 1
            /\ UNCHANGED <<owner, pollTitle, whitelistAddresses, isWhitelisted,
                           lastVotedElection, lastVotedChoice, lastVotedAt,
                           voteCommits, endCount, electionEnd>>

startElection(sender, t) ==
    /\ blockTimestamp' = t
    /\ IF startElectionCheck(sender) # OK
       THEN Reverted
       ELSE /\ choices' = resetVotes(choices)
            /\ electionId' = electionId + 1
            /\ electionActive' = TRUE
            /\ electionStart' = t
            /\ electionEnd' = 0
            /\ lastTx' = Tx("startElection", sender, <<>>, <<ElectionStarted(t)>>)
            /\ startCount' = startCount + 1
            /\ UNCHANGED <<owner, pollTitle, whitelistAddresses, isWhitelisted,
                           lastVotedElection, lastVotedChoice, lastVotedAt,
                           voteCommits, endCount>>

\* Mutant of endElectionCheck: the require on electionActive is left out.
endElectionCheckAnytime(sender) ==
    IF onlyOwner(sender) # OK THEN onlyOwner(sender)
    ELSE OK

endElectionCheck(sender) ==
    IF onlyOwner(sender) # OK THEN onlyOwner(sender)
    ELSE IF ~electionActive THEN AlreadyEndedMsg
    ELSE OK

\* Ending the election also zeroes the counts.
endElectionResetsVotes(sender, t) ==
    /\ blockTimestamp' = t
    /\ IF endElectionCheck(sender) # OK
       THEN Reverted
       ELSE /\ electionActive' = FALSE
            /\ electionEnd' = t
            /\ choices' = resetVotes(choices)
            /\ lastTx' = Tx("endElection", sender, <<>>, <<ElectionEnded(t)>>)
            /\ endCount' = endCount + 1
            /\ UNCHANGED <<owner, electionStart, pollTitle, electionId,
                           whitelistAddresses, isWhitelisted, lastVotedElection,
                           lastVotedChoice, lastVotedAt, voteCommits, startCount>>

endElection(sender, t) ==
    /\ blockTimestamp' = t
    /\ IF endElectionCheck(sender) # OK
       THEN Reverted
       ELSE /\ electionActive' = FALSE
            /\ electionEnd' = t
            /\ lastTx' = Tx("endElection", sender, <<>>, <<ElectionEnded(t)>>)
            /\ endCount' = endCount + 1
            /\ UNCHANGED <<owner, electionStart, pollTitle, electionId, choices,
                           whitelistAddresses, isWhitelisted, lastVotedElection,
                           lastVotedChoice, lastVotedAt, voteCommits, startCount>>

\* Mutants of voteCheck: the replay guard written with <=, the whitelist
\* require left out, the whitelist require moved before the index require.
voteCheckReplayLeq(sender, choiceIndex) ==
    IF onlyWhileActive # OK THEN onlyWhileActive
    ELSE IF ~(choiceIndex < Len(choices)) THEN InvalidChoiceMsg
    ELSE IF ~isWhitelisted[sender] THEN NotWhitelistedMsg
    ELSE IF ~(lastVotedElection[sender] <= electionId) THEN AlreadyVotedMsg
    ELSE OK

\* The replay guard of a voted flag that no start resets.
voteCheckVotedOnce(sender, choiceIndex) ==
    IF onlyWhileActive # OK THEN onlyWhileActive
    ELSE IF ~(choiceIndex < Len(choices)) THEN InvalidChoiceMsg
    ELSE IF ~isWhitelisted[sender] THEN NotWhitelistedMsg
    ELSE IF ~(lastVotedElection[sender] = 0) THEN AlreadyVotedMsg
    ELSE OK

\* Membership read from the enumeration array instead of the flag.
voteCheckTrackedMember(sender, choiceIndex) ==
    IF onlyWhileActive # OK THEN onlyWhileActive
    ELSE IF ~(choiceIndex < Len(choices)) THEN InvalidChoiceMsg
    ELSE IF ~(sender \in Range(whitelistAddresses)) THEN NotWhitelistedMsg
    ELSE IF ~(lastVotedElection[sender] < electionId) THEN AlreadyVotedMsg
    ELSE OK

voteCheckNoWhitelist(sender, choiceIndex) ==
    IF onlyWhileActive # OK THEN onlyWhileActive
    ELSE IF ~(choiceIndex < Len(choices)) THEN InvalidChoiceMsg
    ELSE IF ~(lastVotedElection[sender] < electionId) THEN AlreadyVotedMsg
    ELSE OK

voteCheckWhitelistFirst(sender, choiceIndex) ==
    IF onlyWhileActive # OK THEN onlyWhileActive
    ELSE IF ~isWhitelisted[sender] THEN NotWhitelistedMsg
    ELSE IF ~(choiceIndex < Len(choices)) THEN InvalidChoiceMsg
    ELSE IF ~(lastVotedElection[sender] < electionId) THEN AlreadyVotedMsg
    ELSE OK

\* choiceIndex is 0-based as in the contract; choices[choiceIndex + 1] is its entry.
\* Without the onlyWhileActive modifier.
voteCheckAnytime(sender, choiceIndex) ==
    IF ~(choiceIndex < Len(choices)) THEN InvalidChoiceMsg
    ELSE IF ~isWhitelisted[sender] THEN NotWhitelistedMsg
    ELSE IF ~(lastVotedElection[sender] < electionId) THEN AlreadyVotedMsg
    ELSE OK

voteCheck(sender, choiceIndex) ==
    IF onlyWhileActive # OK THEN onlyWhileActive
    ELSE IF ~(choiceIndex < Len(choices)) THEN InvalidChoiceMsg
    ELSE IF ~isWhitelisted[sender] THEN NotWhitelistedMsg
    ELSE IF ~(lastVotedElection[sender] < electionId) THEN AlreadyVotedMsg
    ELSE OK

\* Mutants of vote: lastVotedElection is not stamped; the tally line counts
\* the vote for the first choice whatever the index.
voteWithoutStamp(sender, choiceIndex, t) ==
    /\ blockTimestamp' = t
    /\ IF voteCheck(sender, choiceIndex) # OK
       THEN Reverted
       ELSE /\ lastVotedChoice' = [lastVotedChoice EXCEPT ![sender] = choiceIndex]
            /\ lastVotedAt' = [lastVotedAt EXCEPT ![sender] = t]
            /\ choices' = [choices EXCEPT ![choiceIndex + 1].votes = @ + 1]
            /\ lastTx' = Tx("vote", sender, choiceIndex, <<VoteCast(sender, choiceIndex)>>)
            /\ voteCommits' = [voteCommits EXCEPT ![sender][electionId] = @ + 1]
            /\ UNCHANGED <<owner, electionActive, electionStart, electionEnd, pollTitle,
                           electionId, whitelistAddresses, isWhitelisted, lastVotedElection,
                           startCount, endCount>>

voteTalliesFirstChoice(sender, choiceIndex, t) ==
    /\ blockTimestamp' = t
    /\ IF voteCheck(sender, choiceIndex) # OK
       THEN Reverted
       ELSE /\ lastVotedElection' = [lastVotedElection EXCEPT ![sender] = electionId]
            /\ lastVotedChoice' = [lastVotedChoice EXCEPT ![sender] = choiceIndex]
            /\ lastVotedAt' = [lastVotedAt EXCEPT ![sender] = t]
            /\ choices' = [choices EXCEPT ![1].votes = @ + 1]
            /\ lastTx' = Tx("vote", sender, choiceIndex, <<VoteCast(sender, choiceIndex)>>)
            /\ voteCommits' = [voteCommits EXCEPT ![sender][electionId] = @ + 1]
            /\ UNCHANGED <<owner, electionActive, electionStart, electionEnd, pollTitle,
                           electionId, whitelistAddresses, isWhitelisted,
                           startCount, endCount>>

\* The chosen index is not stored in the voter's record.
voteForgetsChoice(sender, choiceIndex, t) ==
    /\ blockTimestamp' = t
    /\ IF voteCheck(sender, choiceIndex) # OK
       THEN Reverted
       ELSE /\ lastVotedElection' = [lastVotedElection EXCEPT ![sender] = electionId]
            /\ lastVotedAt' = [lastVotedAt EXCEPT ![sender] = t]
            /\ choices' = [choices EXCEPT ![choiceIndex + 1].votes = @ + 1]
            /\ lastTx' = Tx("vote", sender, choiceIndex, <<VoteCast(sender, choiceIndex)>>)
            /\ voteCommits' = [voteCommits EXCEPT ![sender][electionId] = @ + 1]
            /\ UNCHANGED <<owner, electionActive, electionStart, electionEnd, pollTitle,
                           electionId, whitelistAddresses, isWhitelisted, lastVotedChoice,
                           startCount, endCount>>

\* The vote is stored and counted but no VoteCast is emitted.
voteSilent(sender, choiceIndex, t) ==
    /\ blockTimestamp' = t
    /\ IF voteCheck(sender, choiceIndex) # OK
       THEN Reverted
       ELSE /\ lastVotedElection' = [lastVotedElection EXCEPT ![sender] = electionId]
            /\ lastVotedChoice' = [lastVotedChoice EXCEPT ![sender] = choiceIndex]
            /\ lastVotedAt' = [lastVotedAt EXCEPT ![sender] = t]
            /\ choices' = [choices EXCEPT ![choiceIndex + 1].votes = @ + 1]
            /\ lastTx' = Tx("vote", sender, choiceIndex, <<>>)
            /\ voteCommits' = [voteCommits EXCEPT ![sender][electionId] = @ + 1]
            /\ UNCHANGED <<owner, electionActive, electionStart, electionEnd, pollTitle,
                           electionId, whitelistAddresses, isWhitelisted,
                           startCount, endCount>>

vote(sender, choiceIndex, t) ==
    /\ blockTimestamp' = t
    /\ IF voteCheck(sender, choiceIndex) # OK
       THEN Reverted
       ELSE /\ lastVotedElection' = [lastVotedElection EXCEPT ![sender] = electionId]
            /\ lastVotedChoice' = [lastVotedChoice EXCEPT ![sender] = choiceIndex]
            /\ lastVotedAt' = [lastVotedAt EXCEPT ![sender] = t]
            /\ choices' = [choices EXCEPT ![choiceIndex + 1].votes = @ + 1]
            /\ lastTx' = Tx("vote", sender, choiceIndex, <<VoteCast(sender, choiceIndex)>>)
            /\ voteCommits' = [voteCommits EXCEPT ![sender][electionId] = @ + 1]
            /\ UNCHANGED <<owner, electionActive, electionStart, electionEnd, pollTitle,
                           electionId, whitelistAddresses, isWhitelisted,
                           startCount, endCount>>

\* ---------------------------------------------------------------- views
choiceCount == Len(choices)

voterStatus(voter) ==
    LET votedThisElection == lastVotedElection[voter] = electionId IN
    [whitelisted |-> isWhitelisted[voter],
     voted |-> votedThisElection,
     choiceIndex |-> IF votedThisElection THEN lastVotedChoice[voter] ELSE 0,
     votedAt |-> IF votedThisElection THEN lastVotedAt[voter] ELSE 0]

choiceInfoCheck(choiceIndex) ==
    IF ~(choiceIndex < Len(choices)) THEN InvalidChoiceMsg ELSE OK

\* Defined where choiceInfoCheck(choiceIndex) = OK.
choiceInfo(choiceIndex) ==
    LET choice == choices[choiceIndex + 1] IN
    [label |-> choice.label, votes |-> choice.votes]

whitelistCount == Len(whitelistAddresses)

\* whitelistEntry(index): contract index i is position i + 1 of the sequence.
whitelistEntry(index) ==
    [voter |-> whitelistAddresses[index + 1],
     active |-> isWhitelisted[whitelistAddresses[index + 1]]]

\* getWinner(): one pass over the choices in index order.
winnerStart == [topVotes |-> 0, topIndex |-> 0, tie |-> FALSE, found |-> FALSE]

\* Loop bodies with one slip each, for comparison with winnerStep.
winnerStepLastLeader(acc, i, choice) ==
    IF ~acc.found \/ choice.votes >= acc.topVotes
       THEN [topVotes |-> choice.votes, topIndex |-> i, tie |-> FALSE, found |-> TRUE]
       ELSE acc

winnerStepNeedsVotes(acc, i, choice) ==
    IF choice.votes > acc.topVotes
       THEN [topVotes |-> choice.votes, topIndex |-> i, tie |-> FALSE, found |-> TRUE]
       ELSE IF choice.votes = acc.topVotes
               THEN [acc EXCEPT !.tie = TRUE]
               ELSE acc

winnerStepStickyTie(acc, i, choice) ==
    IF ~acc.found \/ choice.votes > acc.topVotes
       THEN [topVotes |-> choice.votes, topIndex |-> i, tie |-> acc.tie, found |-> TRUE]
       ELSE IF choice.votes = acc.topVotes
               THEN [acc EXCEPT !.tie = TRUE]
               ELSE acc

winnerStep(acc, i, choice) ==
    IF ~acc.found \/ choice.votes > acc.topVotes
       THEN [topVotes |-> choice.votes, topIndex |-> i, tie |-> FALSE, found |-> TRUE]
       ELSE IF choice.votes = acc.topVotes
               THEN [acc EXCEPT !.tie = TRUE]
               ELSE acc

RECURSIVE winnerLoop(_, _, _)
winnerLoop(cs, i, acc) ==
    IF i >= Len(cs)
       THEN acc
       ELSE winnerLoop(cs, i + 1, winnerStep(acc, i, cs[i + 1]))

getWinnerOf(cs) ==
    LET r == winnerLoop(cs, 0, winnerStart) IN
    IF ~r.found
       THEN [winnerIndex |-> 0, label |-> "", votes |-> 0,
             hasTie |-> FALSE, hasWinner |-> FALSE]
       ELSE [winnerIndex |-> r.topIndex, label |-> cs[r.topIndex + 1].label,
             votes |-> r.topVotes, hasTie |-> r.tie, hasWinner |-> TRUE]

\* The view call: the return value is kept with the choices it was computed
\* from; no storage is written and no transaction is mined.
getWinner ==
    /\ returned' = <<[of |-> choices, value |-> getWinnerOf(choices)]>>
    /\ UNCHANGED <<storage, blockTimestamp, lastTx, history, eventLog, txStatus, rosterVoters>>

\* ---------------------------------------------------------------- Next
\* block.timestamp of the next transaction: never earlier than the last one.
BlockTimes == {t \in {blockTimestamp, blockTimestamp + 1} : t <= MaxTime}

Next ==
    \/ \E sender \in Addresses, t \in BlockTimes, title \in Titles :
          setPollTitle(sender, title, t) /\ UNCHANGED <<returned, eventLog, txStatus, rosterVoters>>
    \/ \E sender \in Addresses, t \in BlockTimes, labels \in SeqsUpTo(Labels, MaxChoices) :
          setChoices(sender, labels, t) /\ UNCHANGED <<returned, eventLog, txStatus, rosterVoters>>
    \/ \E sender \in Addresses, t \in BlockTimes, voters \in SeqsUpTo(AddrSpace, MaxTracked) :
          setWhitelist(sender, voters, t) /\ UNCHANGED <<returned, eventLog, txStatus, rosterVoters>>
    \/ \E sender \in Addresses, t \in BlockTimes, voter \in AddrSpace :
          /\ Len(whitelistAddresses) < MaxTracked
          /\ addToWhitelist(sender, voter, t)
          /\ UNCHANGED <<returned, eventLog, txStatus, rosterVoters>>
    \/ \E sender \in Addresses, t \in BlockTimes, voter \in AddrSpace :
          removeFromWhitelist(sender, voter, t) /\ UNCHANGED <<returned, eventLog, txStatus, rosterVoters>>
    \/ \E sender \in Addresses, t \in BlockTimes :
          /\ electionId < MaxEpoch
          /\ startElection(sender, t)
          /\ UNCHANGED <<returned, eventLog, txStatus, rosterVoters>>
    \/ \E sender \in Addresses, t \in BlockTimes :
          endElection(sender, t) /\ UNCHANGED <<returned, eventLog, txStatus, rosterVoters>>
    \/ \E sender \in Addresses, t \in BlockTimes, choiceIndex \in 0..MaxChoices :
          vote(sender, choiceIndex, t) /\ UNCHANGED <<returned, eventLog, txStatus, rosterVoters>>

Spec == Init /\ [][Next]_vars

\* ------------------------------------------------------- the tally engine
\* getWinner() reads nothing but the choices.  Its inputs are drawn as the
\* standings of a running election: up to MaxTallyLen choices whose counts
\* (0..MaxVotes) come from voters outside the modelled address range, with
\* every modelled address whitelisted and not yet voted; or the freshly
\* deployed contract, which has no choices.
TallyLabels == <<"A", "B", "C", "D">>
TallyLabel(k) == TallyLabels[((k - 1) % Len(TallyLabels)) + 1]
TallyInputs ==
    UNION {{[k \in 1..n |-> Choice(TallyLabel(k), f[k])] : f \in [1..n -> 0..MaxVotes]}
           : n \in 1..MaxTallyLen}

RunningElection ==
    /\ owner = Deployer
    /\ electionActive = TRUE
    /\ electionStart = 1
    /\ electionEnd = 0
    /\ pollTitle = ""
    /\ electionId = 1
    /\ choices \in TallyInputs
    /\ whitelistAddresses = [k \in 1..NumAddr |-> k]
    /\ isWhitelisted = [a \in AddrSpace |-> a # ZeroAddress]
    /\ lastVotedElection = [a \in AddrSpace |-> 0]
    /\ lastVotedChoice = [a \in AddrSpace |-> 0]
    /\ lastVotedAt = [a \in AddrSpace |-> 0]
    /\ blockTimestamp = 1
    /\ lastTx = Tx("startElection", Deployer, <<>>, <<ElectionStarted(1)>>)
    /\ voteCommits = [a \in Addresses |-> [e \in 0..MaxEpoch |-> 0]]
    /\ startCount = 1
    /\ endCount = 0
    /\ returned = <<>>
    /\ eventLog = <<>>
    /\ txStatus = OK
    /\ rosterVoters = <<>>

InitTally == Init \/ RunningElection

NextTally ==
    \/ \E sender \in Addresses, choiceIndex \in 0..MaxTallyLen :
          vote(sender, choiceIndex, blockTimestamp) /\ UNCHANGED <<returned, eventLog, txStatus, rosterVoters>>
    \/ getWinner

SpecTally == InitTally /\ [][NextTally]_vars

\* ------------------------------------------------------ the roster contract
\* truffle-dVoting/contracts/Voting.sol.  Its owner, electionActive,
\* electionStart, electionEnd, pollTitle and choices are the variables of the
\* same names; it has no electionId and no whitelist, and keeps a roster of
\* named voters in rosterVoters.  voteCommits counts the committed vote calls
\* per sender and per election, the elections numbered by startCount.
Names == {"", "v", "w"}
Voter(name, voted, choiceIndex, votedAt) ==
    [name |-> name, voted |-> voted, choiceIndex |-> choiceIndex, votedAt |-> votedAt]
VotersSet(count) == [name |-> "VotersSet", args |-> <<count>>]
RosterVoteCast(voterIndex, choiceIndex) ==
    [name |-> "VoteCast", args |-> <<voterIndex, choiceIndex>>]

rosterSetPollTitle(sender, title, t) ==
    /\ blockTimestamp' = t
    /\ IF setPollTitleCheck(sender) # OK
       THEN Reverted /\ UNCHANGED rosterVoters
       ELSE /\ pollTitle' = title
            /\ lastTx' = Tx("setPollTitle", sender, title, <<PollTitleSet(title)>>)
            /\ UNCHANGED <<owner, electionActive, electionStart, electionEnd, electionId,
                           choices, whitelistAddresses, isWhitelisted, lastVotedElection,
                           lastVotedChoice, lastVotedAt, history, rosterVoters>>

rosterSetChoices(sender, labels, t) ==
    /\ blockTimestamp' = t
    /\ IF setChoicesCheck(sender, labels) # OK
       THEN Reverted /\ UNCHANGED rosterVoters
       ELSE /\ choices' = [k \in DOMAIN labels |-> Choice(labels[k], 0)]
            /\ lastTx' = Tx("setChoices", sender, labels, <<ChoicesSet(Len(labels))>>)
            /\ UNCHANGED <<owner, electionActive, electionStart, electionEnd, pollTitle,
                           electionId, whitelistAddresses, isWhitelisted, lastVotedElection,
                           lastVotedChoice, lastVotedAt, history, rosterVoters>>

setVotersCheck(sender, names) ==
    IF onlyOwner(sender) # OK THEN onlyOwner(sender)
    ELSE IF onlyWhenInactive # OK THEN onlyWhenInactive
    ELSE IF ~(Len(names) > 0) THEN NoVotersMsg
    ELSE IF \E k \in DOMAIN names : names[k] = "" THEN EmptyVoterMsg
    ELSE OK

setVoters(sender, names, t) ==
    /\ blockTimestamp' = t
    /\ IF setVotersCheck(sender, names) # OK
       THEN Reverted /\ UNCHANGED rosterVoters
       ELSE /\ rosterVoters' = [k \in DOMAIN names |-> Voter(names[k], FALSE, 0, 0)]
            /\ choices' = resetVotes(choices)
            /\ lastTx' = Tx("setVoters", sender, names, <<VotersSet(Len(names))>>)
            /\ UNCHANGED <<owner, electionActive, electionStart, electionEnd, pollTitle,
                           electionId, whitelistAddresses, isWhitelisted, lastVotedElection,
                           lastVotedChoice, lastVotedAt, history>>

rosterStartElectionCheck(sender) ==
    IF onlyOwner(sender) # OK THEN onlyOwner(sender)
    ELSE IF ~(~electionActive) THEN AlreadyActiveMsg
    ELSE IF ~(Len(choices) > 0) THEN NoChoicesMsg
    ELSE IF ~(Len(rosterVoters) > 0) THEN NoVotersMsg
    ELSE OK

rosterStartElection(sender, t) ==
    /\ blockTimestamp' = t
    /\ IF rosterStartElectionCheck(sender) # OK
       THEN Reverted /\ UNCHANGED rosterVoters
       ELSE /\ electionActive' = TRUE
            /\ electionStart' = t
            /\ electionEnd' = 0
            /\ lastTx' = Tx("startElection", sender, <<>>, <<ElectionStarted(t)>>)
            /\ startCount' = startCount + 1
            /\ UNCHANGED <<owner, pollTitle, electionId, choices, whitelistAddresses,
                           isWhitelisted, lastVotedElection, lastVotedChoice, lastVotedAt,
                           voteCommits, endCount, rosterVoters>>

rosterEndElection(sender, t) ==
    /\ blockTimestamp' = t
    /\ IF endElectionCheck(sender) # OK
       THEN Reverted /\ UNCHANGED rosterVoters
       ELSE /\ electionActive' = FALSE
            /\ electionEnd' = t
            /\ lastTx' = Tx("endElection", sender, <<>>, <<ElectionEnded(t)>>)
            /\ endCount' = endCount + 1
            /\ UNCHANGED <<owner, electionStart, pollTitle, electionId, choices,
                           whitelistAddresses, isWhitelisted, lastVotedElection,
                           lastVotedChoice, lastVotedAt, voteCommits, startCount,
                           rosterVoters>>

\* Without the replay guard.
rosterVoteCheckNoReplay(voterIndex, choiceIndex) ==
    IF onlyWhileActive # OK THEN onlyWhileActive
    ELSE IF ~(voterIndex < Len(rosterVoters)) THEN InvalidVoterMsg
    ELSE IF ~(choiceIndex < Len(choices)) THEN InvalidChoiceMsg
    ELSE OK

\* voterIndex and choiceIndex are 0-based as in the contract.
rosterVoteCheck(voterIndex, choiceIndex) ==
    IF onlyWhileActive # OK THEN onlyWhileActive
    ELSE IF ~(voterIndex < Len(rosterVoters)) THEN InvalidVoterMsg
    ELSE IF ~(choiceIndex < Len(choices)) THEN InvalidChoiceMsg
    ELSE IF ~(~rosterVoters[voterIndex + 1].voted) THEN AlreadyVotedMsg
    ELSE OK

rosterVote(sender, voterIndex, choiceIndex, t) ==
    /\ blockTimestamp' = t
    /\ IF rosterVoteCheck(voterIndex, choiceIndex) # OK
       THEN Reverted /\ UNCHANGED rosterVoters
       ELSE /\ rosterVoters' = [rosterVoters EXCEPT ![voterIndex + 1] =
                                  Voter(@.name, TRUE, choiceIndex, t)]
            /\ choices' = [choices EXCEPT ![choiceIndex + 1].votes = @ + 1]
            /\ lastTx' = Tx("vote", sender, <<voterIndex, choiceIndex>>,
                            <<RosterVoteCast(voterIndex, choiceIndex)>>)
            /\ voteCommits' = [voteCommits EXCEPT ![sender][startCount] = @ + 1]
            /\ UNCHANGED <<owner, electionActive, electionStart, electionEnd, pollTitle,
                           electionId, whitelistAddresses, isWhitelisted, lastVotedElection,
                           lastVotedChoice, lastVotedAt, startCount, endCount>>

NextRoster ==
    \/ \E sender \in Addresses, t \in BlockTimes, title \in Titles :
          /\ rosterSetPollTitle(sender, title, t)
          /\ UNCHANGED <<returned, eventLog, txStatus>>
    \/ \E sender \in Addresses, t \in BlockTimes, labels \in SeqsUpTo(Labels, MaxChoices) :
          /\ rosterSetChoices(sender, labels, t)
          /\ UNCHANGED <<returned, eventLog, txStatus>>
    \/ \E sender \in Addresses, t \in BlockTimes, names \in SeqsUpTo(Names, MaxRoster) :
          /\ setVoters(sender, names, t)
          /\ UNCHANGED <<returned, eventLog, txStatus>>
    \/ \E sender \in Addresses, t \in BlockTimes :
          /\ startCount < MaxEpoch
          /\ rosterStartElection(sender, t)
          /\ UNCHANGED <<returned, eventLog, txStatus>>
    \/ \E sender \in Addresses, t \in BlockTimes :
          /\ rosterEndElection(sender, t)
          /\ UNCHANGED <<returned, eventLog, txStatus>>
    \/ \E sender \in Addresses, t \in BlockTimes,
          voterIndex \in 0..MaxRoster, choiceIndex \in 0..MaxChoices :
          /\ rosterVote(sender, voterIndex, choiceIndex, t)
          /\ UNCHANGED <<returned, eventLog, txStatus>>

SpecRoster == Init /\ [][NextRoster]_vars

\* ---------------------------------------------------------------- the clock
\* The calls with block.timestamp advancing up to MaxClock.  The lists are
\* fixed: the timestamps do not depend on them.
ClockTimes == {t \in {blockTimestamp, blockTimestamp + 1} : t <= MaxClock}

NextClock ==
    \/ \E sender \in Addresses, t \in ClockTimes :
          /\ setChoices(sender, <<"A", "B">>, t)
          /\ UNCHANGED <<returned, eventLog, txStatus, rosterVoters>>
    \/ \E sender \in Addresses, t \in ClockTimes :
          /\ setWhitelist(sender, [k \in 1..NumAddr |-> k], t)
          /\ UNCHANGED <<returned, eventLog, txStatus, rosterVoters>>
    \/ \E sender \in Addresses, t \in ClockTimes :
          /\ electionId < MaxEpoch
          /\ startElection(sender, t)
          /\ UNCHANGED <<returned, eventLog, txStatus, rosterVoters>>
    \/ \E sender \in Addresses, t \in ClockTimes :
          /\ endElection(sender, t)
          /\ UNCHANGED <<returned, eventLog, txStatus, rosterVoters>>
    \/ \E sender \in Addresses, t \in ClockTimes, choiceIndex \in 0..MaxChoices :
          /\ vote(sender, choiceIndex, t)
          /\ UNCHANGED <<returned, eventLog, txStatus, rosterVoters>>

SpecClock == Init /\ [][NextClock]_vars

\* ------------------------------------------------------ the notification log
\* The same calls with the outcome of each call and the log of the chain
\* kept: a committed transaction's events are appended in commit order, a
\* reverted call logs nothing.
Called(status) ==
    /\ txStatus' = status
    /\ eventLog' = IF status = OK THEN eventLog \o lastTx'.logs ELSE eventLog
    /\ UNCHANGED <<returned, rosterVoters>>

\* Runs stop committing when the log holds MaxLog events; calls that are
\* rejected go on.
LogRoom(status) == Len(eventLog) < MaxLog \/ status # OK

\* The arguments tried under SpecLog: for each list function one valid list
\* of one and of two entries, the empty list, and a bad entry in first and
\* in last position.
LogTitles == {"T"}
LogLabelLists == {<<>>, <<"A">>, <<"A", "B">>, <<"", "A">>, <<"A", "">>}
LogVoterLists == {<<>>, <<1>>, <<1, 2>>, <<ZeroAddress, 1>>, <<1, ZeroAddress>>}

NextLog ==
    \/ \E sender \in Addresses, t \in BlockTimes, title \in LogTitles :
          /\ setPollTitle(sender, title, t)
          /\ LogRoom(setPollTitleCheck(sender))
          /\ Called(setPollTitleCheck(sender))
    \/ \E sender \in Addresses, t \in BlockTimes, labels \in LogLabelLists :
          /\ setChoices(sender, labels, t)
          /\ LogRoom(setChoicesCheck(sender, labels))
          /\ Called(setChoicesCheck(sender, labels))
    \/ \E sender \in Addresses, t \in BlockTimes, voters \in LogVoterLists :
          /\ setWhitelist(sender, voters, t)
          /\ LogRoom(setWhitelistCheck(sender, voters))
          /\ Called(setWhitelistCheck(sender, voters))
    \/ \E sender \in Addresses, t \in BlockTimes, voter \in AddrSpace :
          /\ Len(whitelistAddresses) < MaxTracked
          /\ addToWhitelist(sender, voter, t)
          /\ LogRoom(addToWhitelistCheck(sender, voter))
          /\ Called(addToWhitelistCheck(sender, voter))
    \/ \E sender \in Addresses, t \in BlockTimes, voter \in AddrSpace :
          /\ removeFromWhitelist(sender, voter, t)
          /\ LogRoom(removeFromWhitelistCheck(sender, voter))
          /\ Called(removeFromWhitelistCheck(sender, voter))
    \/ \E sender \in Addresses, t \in BlockTimes :
          /\ electionId < MaxEpoch
          /\ startElection(sender, t)
          /\ LogRoom(startElectionCheck(sender))
          /\ Called(startElectionCheck(sender))
    \/ \E sender \in Addresses, t \in BlockTimes :
          /\ endElection(sender, t)
          /\ LogRoom(endElectionCheck(sender))
          /\ Called(endElectionCheck(sender))
    \/ \E sender \in Addresses, t \in BlockTimes, choiceIndex \in 0..MaxChoices :
          /\ vote(sender, choiceIndex, t)
          /\ LogRoom(voteCheck(sender, choiceIndex))
          /\ Called(voteCheck(sender, choiceIndex))

SpecLog == Init /\ [][NextLog]_vars

\* ================================================================ properties
RECURSIVE SumVotes(_)
SumVotes(cs) == IF cs = <<>> THEN 0 ELSE Head(cs).votes + SumVotes(Tail(cs))
ChoiceLabels(cs) == [k \in DOMAIN cs |-> cs[k].label]
\* The step is a committed vote of identity c.
VoteCommitted(c) == voteCommits'[c] # voteCommits[c]
\* The index carried by the VoteCast event of a vote transaction.
CastIndex(tx) == tx.logs[1].args[2]

\* C1: for every identity and every value of electionId, at most one vote call
\* of that identity commits while electionId has that value, whatever the
\* administrator does in between.
C1_AtMostOneVotePerEpoch ==
    \A c \in Addresses, e \in 0..MaxEpoch : voteCommits[c][e] <= 1

\* An identity has voted in epoch 1 and, after an end and a new start, in epoch 2.
C1_Witness ==
    \E c \in Addresses : voteCommits[c][1] = 1 /\ voteCommits[c][2] = 1

\* C2, as claimed: once an identity has committed a vote in the epoch, each of
\* its later vote calls while electionId has that value fails with "Already
\* voted", whatever the index (of a configured choice) and the lifecycle state.
C2_AlwaysAlreadyVoted ==
    \A c \in Addresses, i \in 0..MaxChoices :
        (voteCommits[c][electionId] >= 1 /\ i < choiceCount) =>
            voteCheck(c, i) = AlreadyVotedMsg

\* C2, amended: such a later call always fails; the reason is "Already voted"
\* when the election is still active and the index is valid, "Election not
\* active" once the election has ended, "Invalid choice" for an active election
\* and an index out of range.
C2_SecondVoteRejected ==
    \A c \in Addresses, i \in 0..MaxChoices :
        voteCommits[c][electionId] >= 1 =>
            voteCheck(c, i) = IF ~electionActive THEN NotActiveMsg
                              ELSE IF ~(i < choiceCount) THEN InvalidChoiceMsg
                              ELSE AlreadyVotedMsg

\* The identity that has just voted calls vote again, for the other choice.
C2_Witness ==
    /\ electionActive
    /\ lastTx.op = "vote"
    /\ choiceCount = 2
    /\ voteCommits[lastTx.sender][electionId] = 1
    /\ voteCheck(lastTx.sender, 1 - CastIndex(lastTx)) = AlreadyVotedMsg

\* C3: a vote commits only from a state in which the election is active, the
\* index is below choiceCount(), the caller is whitelisted and the caller's
\* lastVotedElection is strictly below electionId.
C3_VoteCommitsOnlyIf ==
    [][\A c \in Addresses :
          VoteCommitted(c) =>
              /\ lastTx'.op = "vote"
              /\ lastTx'.sender = c
              /\ electionActive
              /\ CastIndex(lastTx') < choiceCount
              /\ isWhitelisted[c]
              /\ lastVotedElection[c] < electionId]_vars

\* A whitelisted identity other than the administrator has voted for index 1.
C3_Witness ==
    /\ lastTx.op = "vote"
    /\ lastTx.sender # owner
    /\ CastIndex(lastTx) = 1
    /\ isWhitelisted[lastTx.sender]
    /\ voteCommits[lastTx.sender][electionId] = 1

\* C4: vote reports the first failing precondition in the order not active,
\* index out of range, not whitelisted, already voted; it passes when none fails.
C4_VoteErrorOrder ==
    \A c \in Addresses, i \in 0..MaxChoices :
        voteCheck(c, i) =
            IF ~electionActive THEN NotActiveMsg
            ELSE IF i >= choiceCount THEN InvalidChoiceMsg
            ELSE IF ~isWhitelisted[c] THEN NotWhitelistedMsg
            ELSE IF lastVotedElection[c] >= electionId THEN AlreadyVotedMsg
            ELSE OK

\* Active election in which two preconditions fail at once: an identity that is
\* not whitelisted, and one that has voted, each passing an index out of range.
C4_Witness ==
    /\ electionActive
    /\ \E c, d \in Addresses :
          /\ ~isWhitelisted[c]
          /\ voteCheck(c, choiceCount) = InvalidChoiceMsg
          /\ isWhitelisted[d]
          /\ lastVotedElection[d] = electionId
          /\ voteCheck(d, choiceCount) = InvalidChoiceMsg

\* C5: a committed vote(i) of caller c stamps c's record with the current
\* epoch, index i and the block time, adds exactly 1 to choice i's votes, logs
\* exactly one VoteCast(c, i), and leaves alone the other choices, the other
\* identities' records, the whitelist, the epoch, the active flag, the election
\* window, the title and the owner.
C5_VoteEffect ==
    [][\A c \in Addresses :
          VoteCommitted(c) =>
              LET i == CastIndex(lastTx') IN
              /\ lastTx' = Tx("vote", c, i, <<VoteCast(c, i)>>)
              /\ voteCommits' = [voteCommits EXCEPT ![c][electionId] = @ + 1]
              /\ lastVotedElection' = [lastVotedElection EXCEPT ![c] = electionId]
              /\ lastVotedChoice' = [lastVotedChoice EXCEPT ![c] = i]
              /\ lastVotedAt' = [lastVotedAt EXCEPT ![c] = blockTimestamp']
              /\ choices' = [choices EXCEPT ![i + 1].votes = choices[i + 1].votes + 1]
              /\ UNCHANGED <<whitelistAddresses, isWhitelisted, electionId, electionActive,
                             electionStart, electionEnd, pollTitle, owner>>]_vars

\* Both identities have voted, the last one for index 1, the other for index 0.
C5_Witness ==
    /\ lastTx.op = "vote"
    /\ CastIndex(lastTx) = 1
    /\ choiceCount = 2
    /\ choices[1].votes = 1
    /\ choices[2].votes = 1

\* C6: a successful startElection leaves every choice with 0 votes and adds
\* exactly 1 to electionId; endElection does not change electionId; no step
\* decreases it; electionId equals the number of successful starts.
C6_EpochCountsStarts ==
    [][/\ startCount' # startCount =>
              /\ electionId' = electionId + 1
              /\ \A k \in DOMAIN choices' : choices'[k].votes = 0
       /\ endCount' # endCount => electionId' = electionId
       /\ electionId' >= electionId
       /\ electionId = startCount
       /\ electionId' = startCount']_vars

\* The second election has just been started over choices that held votes.
C6_Witness ==
    /\ lastTx.op = "startElection"
    /\ electionId = 2
    /\ \E c \in Addresses : voteCommits[c][1] = 1
    /\ \A k \in DOMAIN choices : choices[k].votes = 0

\* C7: the administrator's startElection reports, in this order, already
\* active, no choices, no whitelisted identity; from a state in which it is
\* rejected no step raises the epoch, sets the active flag or moves the start
\* timestamp.  With no choice configured the reason is "No choices".
C7_StartErrorOrder ==
    /\ [](startElectionCheck(owner) =
            IF electionActive THEN AlreadyActiveMsg
            ELSE IF choiceCount = 0 THEN NoChoicesMsg
            ELSE IF \A a \in AddrSpace : ~isWhitelisted[a] THEN NoVotersMsg
            ELSE OK)
    /\ [][startElectionCheck(owner) # OK =>
              /\ electionId' = electionId
              /\ ~(~electionActive /\ electionActive')
              /\ electionStart' = electionStart
              /\ startCount' = startCount]_vars

\* No choice is configured and nobody is whitelisted although an identity is
\* tracked: two preconditions fail and "No choices" is reported.
C7_Witness ==
    /\ ~electionActive
    /\ choiceCount = 0
    /\ Len(whitelistAddresses) > 0
    /\ \A a \in AddrSpace : ~isWhitelisted[a]
    /\ startElectionCheck(owner) = NoChoicesMsg

\* C8: startElection passes only while some identity is whitelisted; when every
\* tracked identity has been removed the administrator's start is rejected, with
\* "No voters" once choices are configured, although whitelistCount() > 0.
C8_StartNeedsWhitelisted ==
    (\A a \in AddrSpace : ~isWhitelisted[a]) =>
        /\ \A sender \in Addresses : startElectionCheck(sender) # OK
        /\ (~electionActive /\ choiceCount > 0) => startElectionCheck(owner) = NoVotersMsg

\* The only tracked identity has just been removed; choices are configured.
C8_Witness ==
    /\ lastTx.op = "removeFromWhitelist"
    /\ Len(whitelistAddresses) > 0
    /\ \A a \in AddrSpace : ~isWhitelisted[a]
    /\ choiceCount > 0
    /\ startElectionCheck(owner) = NoVotersMsg

\* C9: electionActive changes only by a committed startElection (inactive to
\* active) and a committed endElection (active to inactive); the administrator's
\* start while active ("Election already active") and end while inactive
\* ("Election already ended") are rejected;
\* committed starts and ends alternate, beginning with a start.
C9_StartEndAlternate ==
    /\ [](/\ electionActive => startElectionCheck(owner) = AlreadyActiveMsg
          /\ ~electionActive => endElectionCheck(owner) = AlreadyEndedMsg
          /\ startCount = endCount + (IF electionActive THEN 1 ELSE 0))
    /\ [][/\ electionActive' # electionActive =>
                 \/ /\ ~electionActive
                    /\ lastTx'.op = "startElection"
                    /\ startCount' = startCount + 1
                    /\ endCount' = endCount
                 \/ /\ electionActive
                    /\ lastTx'.op = "endElection"
                    /\ endCount' = endCount + 1
                    /\ startCount' = startCount
          /\ startCount' # startCount => ~electionActive /\ electionActive'
          /\ endCount' # endCount => electionActive /\ ~electionActive']_vars

\* Two elections have been started and ended.
C9_Witness ==
    /\ startCount = 2
    /\ endCount = 2
    /\ ~electionActive
    /\ lastTx.op = "endElection"

\* C10: while the election is active the administrator's setPollTitle,
\* setChoices, setWhitelist, addToWhitelist and removeFromWhitelist are rejected
\* with "Election active" whatever their argument, and nobody's call passes; so
\* the title, the choice labels and the membership flags are the same in every
\* state from a start to the next end.
C10_ConfigFrozenWhileActive ==
    /\ [](electionActive =>
            \A sender \in Addresses :
                LET expect == IF sender = owner THEN ActiveMsg ELSE OnlyOwnerMsg IN
                /\ setPollTitleCheck(sender) = expect
                /\ \A labels \in SeqsUpTo(Labels, MaxChoices) :
                      setChoicesCheck(sender, labels) = expect
                /\ \A voters \in SeqsUpTo(AddrSpace, MaxTracked) :
                      setWhitelistCheck(sender, voters) = expect
                /\ \A voter \in AddrSpace :
                      /\ addToWhitelistCheck(sender, voter) = expect
                      /\ removeFromWhitelistCheck(sender, voter) = expect)
    /\ [][(electionActive /\ electionActive') =>
              /\ pollTitle' = pollTitle
              /\ ChoiceLabels(choices') = ChoiceLabels(choices)
              /\ isWhitelisted' = isWhitelisted
              /\ whitelistAddresses' = whitelistAddresses]_vars

\* An active election with a title set, one member and one non-member, in
\* which a vote has been cast.
C10_Witness ==
    /\ electionActive
    /\ pollTitle = "T"
    /\ lastTx.op = "vote"
    /\ \E a, b \in Addresses : isWhitelisted[a] /\ ~isWhitelisted[b]

\* C11: a call of setPollTitle, setChoices, setWhitelist, addToWhitelist,
\* removeFromWhitelist, startElection or endElection by anyone but the owner
\* is rejected with "Only owner" in every reachable state and for every
\* argument, also where the lifecycle state or the argument would be rejected
\* too; so it changes nothing, and every committed transaction of these seven
\* functions was sent by the owner.
AdminOps == {"setPollTitle", "setChoices", "setWhitelist", "addToWhitelist",
             "removeFromWhitelist", "startElection", "endElection"}

C11_OnlyOwnerFirst ==
    /\ \A s \in Addresses \ {owner} :
          /\ setPollTitleCheck(s) = OnlyOwnerMsg
          /\ \A labels \in SeqsUpTo(Labels, MaxChoices) :
                setChoicesCheck(s, labels) = OnlyOwnerMsg
          /\ \A voters \in SeqsUpTo(AddrSpace, MaxTracked) :
                setWhitelistCheck(s, voters) = OnlyOwnerMsg
          /\ \A voter \in AddrSpace :
                /\ addToWhitelistCheck(s, voter) = OnlyOwnerMsg
                /\ removeFromWhitelistCheck(s, voter) = OnlyOwnerMsg
          /\ startElectionCheck(s) = OnlyOwnerMsg
          /\ endElectionCheck(s) = OnlyOwnerMsg
    /\ lastTx.op \in AdminOps => lastTx.sender = owner

\* A running election in which a whitelisted non-owner has voted: its
\* setChoices call with an empty list is wrong in sender, state and argument.
C11_Witness ==
    \E s \in Addresses \ {owner} :
       /\ electionActive
       /\ voteCommits[s][electionId] = 1
       /\ setChoicesCheck(owner, <<>>) = ActiveMsg
       /\ setChoicesCheck(s, <<>>) = OnlyOwnerMsg

\* C12: owner is the deployer in every reachable state: the constructor sets
\* it and no function writes it.
C12_OwnerIsDeployer == owner = Deployer

\* Two elections were started and ended, the last committed transaction came
\* from another identity (a vote), and owner is still the deployer.
C12_Witness ==
    /\ startCount = 2
    /\ endCount = 1
    /\ lastTx.op = "vote"
    /\ lastTx.sender # Deployer
    /\ owner = Deployer

\* The state right after a committed setChoices / setWhitelist, and the
\* steps that may touch each collection.
C13_AfterLastCall ==
    /\ lastTx.op = "setChoices" =>
          choices = [k \in DOMAIN lastTx.arg |-> Choice(lastTx.arg[k], 0)]
    /\ lastTx.op = "setWhitelist" =>
          \A a \in AddrSpace : isWhitelisted[a] <=> a \in Range(lastTx.arg)

C13_OnlyOwnFunction ==
    /\ ChoiceLabels(choices') # ChoiceLabels(choices) => lastTx'.op = "setChoices"
    /\ lastTx'.op = "setWhitelist" => choices' = choices
    /\ isWhitelisted' # isWhitelisted =>
          lastTx'.op \in {"setWhitelist", "addToWhitelist", "removeFromWhitelist"}

\* C13: setChoices and setWhitelist replace wholesale.  Right after a
\* committed setChoices the choices are exactly the labels of that call, in
\* order, each with 0 votes; right after a committed setWhitelist an identity
\* is whitelisted iff it occurs in that call's list.  Along a sequence of such
\* calls each collection is touched only by its own function: labels change
\* only in a setChoices step, a setWhitelist step leaves the choices alone,
\* and whitelist flags change only in setWhitelist, addToWhitelist and
\* removeFromWhitelist steps.  So the state after the sequence holds the last
\* call's contents and nothing of the earlier calls.
C13_WholesaleReplace == []C13_AfterLastCall /\ [][C13_OnlyOwnFunction]_vars

\* After a finished election the list was replaced: an identity that voted
\* in epoch 1 is not in the new list and is no longer whitelisted, while the
\* two choices set before stay as they are.
C13_Witness ==
    /\ lastTx.op = "setWhitelist"
    /\ endCount = 1
    /\ Len(choices) = 2
    /\ \E a \in Addresses :
          /\ lastVotedElection[a] = 1
          /\ a \notin Range(lastTx.arg)
          /\ ~isWhitelisted[a]

\* C14: the enumeration read through whitelistCount() / whitelistEntry(i)
\* never holds the same identity at two indices.
C14_NoDuplicateEntry ==
    \A j, k \in 0..(whitelistCount - 1) :
       j # k => whitelistEntry(j).voter # whitelistEntry(k).voter

\* C15: voterStatus(a) reports voted only for an identity that committed a
\* vote in the current epoch; an identity that never voted is never reported
\* as voted, epoch 0 included.
C15_VotedOnlyIfCommitted ==
    \A a \in Addresses :
       voterStatus(a).voted => voteCommits[a][electionId] >= 1

\* C16: let v have committed a vote in an epoch e1 and let a later epoch
\* e2 > e1 be running.  The old vote is in no count: the counts of e2 add up
\* to the number of identities that committed a vote in e2.  And it does not
\* block v: while v is whitelisted and has not voted in e2, v's vote call
\* with any index below choiceCount() passes every check, so it commits.
C16_OldVoteNeitherCountsNorBlocks ==
    \A v \in Addresses : \A e1 \in 0..MaxEpoch :
       (electionActive /\ e1 < electionId /\ voteCommits[v][e1] >= 1) =>
          /\ SumVotes(choices) =
                Cardinality({c \in Addresses : voteCommits[c][electionId] >= 1})
          /\ (isWhitelisted[v] /\ voteCommits[v][electionId] = 0) =>
                \A i \in 0..(choiceCount - 1) : voteCheck(v, i) = OK

\* Epoch 2 is running; v voted in epoch 1 and has just voted again, and that
\* vote is the only one counted.
C16_Witness ==
    \E v \in Addresses :
       /\ electionActive
       /\ electionId = 2
       /\ voteCommits[v][1] = 1
       /\ voteCommits[v][2] = 1
       /\ lastTx.op = "vote"
       /\ lastTx.sender = v
       /\ SumVotes(choices) = 1

\* C17: while an election is active, the count of every choice is the number
\* of identities whose record carries the current electionId and that
\* choice's index; records of earlier epochs add to no count.
C17_CountsMatchRecords ==
    electionActive =>
       \A k \in DOMAIN choices :
          choices[k].votes =
             Cardinality({a \in AddrSpace : /\ lastVotedElection[a] = electionId
                                            /\ lastVotedChoice[a] = k - 1})

\* Epoch 2 is running with two choices: one identity voted for index 1 in
\* it, the other still carries its epoch-1 record for index 1.
C17_Witness ==
    \E a, b \in Addresses :
       /\ electionActive
       /\ electionId = 2
       /\ Len(choices) = 2
       /\ lastVotedElection[a] = 2 /\ lastVotedChoice[a] = 1
       /\ lastVotedElection[b] = 1 /\ lastVotedChoice[b] = 1
       /\ choices[2].votes = 1

\* The greatest count of a non-empty list of choices and the indices
\* (0-based) that reach it.
TopCount(cs) == CHOOSE m \in {cs[k].votes : k \in DOMAIN cs} :
                   \A k \in DOMAIN cs : cs[k].votes <= m
Leaders(cs) == {k - 1 : k \in {n \in DOMAIN cs : cs[n].votes = TopCount(cs)}}
FirstLeader(cs) == CHOOSE i \in Leaders(cs) : \A j \in Leaders(cs) : i <= j

\* C18: for every non-empty list of choices getWinner() returns hasWinner =
\* TRUE, votes = the greatest count, winnerIndex = the lowest index with that
\* count, that choice's label, and hasTie = TRUE exactly when two or more
\* choices have the greatest count (equal counts below it do not matter).
C18_WinnerIsFirstMaximum ==
    \A k \in DOMAIN returned :
       LET cs == returned[k].of
           w == returned[k].value
       IN  Len(cs) > 0 =>
              /\ w.hasWinner = TRUE
              /\ w.votes = TopCount(cs)
              /\ w.winnerIndex = FirstLeader(cs)
              /\ w.label = cs[FirstLeader(cs) + 1].label
              /\ w.hasTie = (Cardinality(Leaders(cs)) >= 2)

\* The counts [3, 3, 1]: index 0 with 3 votes and a tie.
C18_Witness ==
    returned = <<[of |-> <<Choice("A", 3), Choice("B", 3), Choice("C", 1)>>,
                  value |-> [winnerIndex |-> 0, label |-> "A", votes |-> 3,
                             hasTie |-> TRUE, hasWinner |-> TRUE]]>>

NoWinner == [winnerIndex |-> 0, label |-> "", votes |-> 0,
             hasTie |-> FALSE, hasWinner |-> FALSE]

\* C19: getWinner() returns hasWinner = FALSE exactly when there are no
\* choices, and then the other fields are 0, "", 0 and FALSE; with one choice
\* or more hasWinner is TRUE, also when every count is 0.
C19_NoWinnerIffNoChoices ==
    \A k \in DOMAIN returned :
       LET cs == returned[k].of
           w == returned[k].value
       IN  /\ (w.hasWinner = FALSE) <=> (Len(cs) = 0)
           /\ Len(cs) = 0 => w = NoWinner

\* getWinner() was called on the freshly deployed contract.
C19_Witness ==
    /\ choiceCount = 0
    /\ returned = <<[of |-> <<>>, value |-> NoWinner]>>

\* C20: one more committed vote never costs its choice the lead.  If
\* getWinner() reports index j before a committed vote for j, then after it
\* getWinner() still reports j, and with hasTie = FALSE.
C20_VoteKeepsLeader ==
    [][\A c \in Addresses :
          VoteCommitted(c) =>
             LET j == lastTx'.arg
                 before == getWinnerOf(choices)
                 after == getWinnerOf(choices')
             IN  (before.hasWinner /\ before.winnerIndex = j) =>
                    /\ after.hasWinner
                    /\ after.winnerIndex = j
                    /\ after.hasTie = FALSE]_vars

\* getWinner() reported a tie led by index 1 over three choices; then one
\* vote for index 1 was committed, and index 1 now leads alone.
C20_Witness ==
    /\ Len(returned) = 1
    /\ lastTx.op = "vote"
    /\ lastTx.arg = 1
    /\ Len(choices) = 3
    /\ returned[1].value.winnerIndex = 1
    /\ returned[1].value.hasTie
    /\ SumVotes(choices) = SumVotes(returned[1].of) + 1
    /\ getWinnerOf(choices).winnerIndex = 1
    /\ ~getWinnerOf(choices).hasTie

\* The state of the scenario: choices "A", "B", whitelist X, Y, first
\* election running, X voted index 0 and Y voted index 1.
Scenario21(X, Y) ==
    /\ X # Y
    /\ ChoiceLabels(choices) = <<"A", "B">>
    /\ whitelistAddresses = <<X, Y>>
    /\ isWhitelisted[X] /\ isWhitelisted[Y]
    /\ electionActive
    /\ electionId = 1
    /\ voteCommits[X][1] = 1 /\ lastVotedChoice[X] = 0
    /\ voteCommits[Y][1] = 1 /\ lastVotedChoice[Y] = 1

\* C21: after setChoices(["A","B"]), setWhitelist([X,Y]), startElection and
\* the votes of X for index 0 and Y for index 1, getWinner() returns
\* (0, "A", 1, hasTie = TRUE, hasWinner = TRUE) and any further vote call of
\* X with a valid index is rejected with "Already voted".
C21_TwoVoterScenario ==
    \A X, Y \in Addresses :
       Scenario21(X, Y) =>
          /\ getWinnerOf(choices) =
                [winnerIndex |-> 0, label |-> "A", votes |-> 1,
                 hasTie |-> TRUE, hasWinner |-> TRUE]
          /\ \A i \in 0..(choiceCount - 1) : voteCheck(X, i) = AlreadyVotedMsg

\* The scenario was played with no other election before it; the vote of Y
\* is the last committed transaction.
C21_Witness ==
    \E X, Y \in Addresses :
       /\ Scenario21(X, Y)
       /\ startCount = 1
       /\ lastTx = Tx("vote", Y, 1, <<VoteCast(Y, 1)>>)

\* X was a member (it is still in the enumeration array) and its flag is
\* cleared while an election runs.
RemovedBeforeStart(X) ==
    /\ electionActive
    /\ X \in Range(whitelistAddresses)
    /\ ~isWhitelisted[X]

\* C22: an identity removed before the start stays out for the whole
\* election.  While the election runs, each of its vote calls with an index
\* below choiceCount() is rejected with "Not whitelisted", the owner's
\* addToWhitelist and setWhitelist calls that would bring it back are
\* rejected, and no step taken during the election changes a membership flag.
C22_RemovedStaysOut ==
    /\ [](\A X \in Addresses :
            RemovedBeforeStart(X) =>
               /\ \A i \in 0..(choiceCount - 1) : voteCheck(X, i) = NotWhitelistedMsg
               /\ addToWhitelistCheck(owner, X) = ActiveMsg
               /\ \A voters \in SeqsUpTo(AddrSpace, MaxTracked) :
                     setWhitelistCheck(owner, voters) = ActiveMsg)
    /\ [][electionActive => isWhitelisted' = isWhitelisted]_vars

\* The election has just been started with X removed and another identity
\* whitelisted.
C22_Witness ==
    \E X, Y \in Addresses :
       /\ RemovedBeforeStart(X)
       /\ isWhitelisted[Y]
       /\ lastTx.op = "startElection"
       /\ voteCheck(X, 0) = NotWhitelistedMsg

\* A step that commits removeFromWhitelist: the only steps of that function
\* that change a flag.
RemoveCommitted == lastTx'.op = "removeFromWhitelist" /\ isWhitelisted' # isWhitelisted

\* C23: while inactive, the owner's removeFromWhitelist(a) is rejected with
\* "Not whitelisted" exactly when a's flag is not set (never added or already
\* removed) and a rejected call changes nothing; a committed call clears the
\* flag of a alone, leaves the enumeration array as it is, so that
\* whitelistEntry reports a as not active, and logs exactly one
\* WhitelistRemoved(a).
C23_RemoveFromWhitelist ==
    /\ [](\A a \in AddrSpace :
            ~electionActive =>
               removeFromWhitelistCheck(owner, a) =
                  IF isWhitelisted[a] THEN OK ELSE NotWhitelistedMsg)
    /\ [][RemoveCommitted =>
            LET a == lastTx'.arg IN
            /\ removeFromWhitelistCheck(lastTx'.sender, a) = OK
            /\ isWhitelisted' = [isWhitelisted EXCEPT ![a] = FALSE]
            /\ whitelistAddresses' = whitelistAddresses
            /\ \E k \in 0..(whitelistCount - 1) :
                  whitelistEntry(k)' = [voter |-> a, active |-> FALSE]
            /\ lastTx'.logs = <<WhitelistRemoved(a)>>
            /\ UNCHANGED <<owner, electionActive, electionStart, electionEnd,
                           pollTitle, electionId, choices, lastVotedElection,
                           lastVotedChoice, lastVotedAt, history>>]_vars

\* An identity was removed: it is still listed, reported as not active, and
\* a second removal would be rejected.
C23_Witness ==
    \E a \in Addresses :
       /\ lastTx.op = "removeFromWhitelist"
       /\ lastTx.arg = a
       /\ whitelistCount = 2
       /\ whitelistEntry(1) = [voter |-> a, active |-> FALSE]
       /\ removeFromWhitelistCheck(owner, a) = NotWhitelistedMsg

\* The steps of an addToWhitelist call that finds the flag set.
AddRepeated ==
    /\ (lastTx'.op = "addToWhitelist" /\ lastTx'.logs = <<>>) =>
          (isWhitelisted[lastTx'.arg] /\ UNCHANGED storage)
    /\ (lastTx.op = "addToWhitelist" /\ lastTx'.op = "addToWhitelist"
                                     /\ lastTx'.arg = lastTx.arg) =>
          (UNCHANGED storage /\ (lastTx' = lastTx \/ lastTx'.logs = <<>>))

\* C24: addToWhitelist is idempotent.  While inactive the owner's call for
\* an identity whose flag is set passes every check; a call committed with
\* no event is one for such an identity and writes no storage; and a step
\* whose call repeats the addToWhitelist(a) committed just before leaves the
\* storage as it is and logs nothing.
C24_AddIsIdempotent ==
    /\ [](\A a \in Addresses :
            (~electionActive /\ isWhitelisted[a]) => addToWhitelistCheck(owner, a) = OK)
    /\ [][AddRepeated]_vars

\* addToWhitelist(a) was committed for an identity already whitelisted: no
\* event, and a is listed once.
C24_Witness ==
    \E a \in Addresses :
       /\ lastTx = Tx("addToWhitelist", owner, a, <<>>)
       /\ isWhitelisted[a]
       /\ whitelistAddresses = <<a>>

\* The events a committed transaction of each function has to log, read
\* from the step that commits it.
ExpectedEvents ==
    LET op == lastTx'.op
        arg == lastTx'.arg
    IN  CASE op = "setPollTitle" -> <<PollTitleSet(arg)>>
          [] op = "setChoices" -> <<ChoicesSet(Len(arg))>>
          [] op = "setWhitelist" -> <<WhitelistSet(Len(arg))>>
          [] op = "addToWhitelist" ->
                IF isWhitelisted' # isWhitelisted THEN <<WhitelistAdded(arg)>> ELSE <<>>
          [] op = "removeFromWhitelist" -> <<WhitelistRemoved(arg)>>
          [] op = "startElection" -> <<ElectionStarted(blockTimestamp')>>
          [] op = "endElection" -> <<ElectionEnded(blockTimestamp')>>
          [] op = "vote" -> <<VoteCast(lastTx'.sender, arg)>>

LogStep ==
    LET n == Len(eventLog) IN
    /\ Len(eventLog') >= n
    /\ SubSeq(eventLog', 1, n) = eventLog
    /\ txStatus' # OK => (eventLog' = eventLog /\ UNCHANGED storage)
    /\ txStatus' = OK =>
          /\ Len(eventLog') = n + Len(ExpectedEvents)
          /\ \A k \in DOMAIN ExpectedEvents :
                /\ eventLog'[n + k].name = ExpectedEvents[k].name
                /\ eventLog'[n + k].args = ExpectedEvents[k].args

\* C25: the log only grows, at its end.  A committed setPollTitle,
\* setChoices, setWhitelist, removeFromWhitelist, startElection, endElection
\* or vote appends exactly one event, of its own kind and with its own
\* arguments; a committed addToWhitelist appends one WhitelistAdded when it
\* changes a membership flag and nothing otherwise; a rejected call appends
\* nothing and writes nothing.
C25_OneEventPerCommit == [][LogStep]_vars

\* Four commits, four events in commit order, the vote last.
C25_Witness ==
    /\ Len(eventLog) = 4
    /\ [k \in 1..4 |-> eventLog[k].name] =
          <<"ChoicesSet", "WhitelistAdded", "ElectionStarted", "VoteCast">>
    /\ eventLog[4] = VoteCast(2, 0)
    /\ txStatus = OK

\* What the owner's setChoices / setWhitelist call answers while inactive.
ListChecks ==
    ~electionActive =>
       /\ \A labels \in SeqsUpTo(Labels, MaxChoices) :
             setChoicesCheck(owner, labels) =
                IF labels = <<>> THEN NoChoicesMsg
                ELSE IF "" \in Range(labels) THEN EmptyChoiceMsg
                ELSE OK
       /\ \A voters \in SeqsUpTo(AddrSpace, MaxTracked) :
             setWhitelistCheck(owner, voters) =
                IF voters = <<>> THEN NoVotersMsg
                ELSE IF ZeroAddress \in Range(voters) THEN InvalidVoterMsg
                ELSE OK

\* C26: a rejected call leaves the storage, the log and the history as they
\* were.  While inactive the owner's setChoices is rejected for an empty list
\* and for a blank label at any position, and setWhitelist for an empty list
\* and for the zero address at any position, so these calls leave the old
\* choices with their counts and the old whitelist in place.
C26_RejectedCallChangesNothing ==
    /\ []ListChecks
    /\ [][txStatus' # OK => UNCHANGED <<storage, lastTx, history, eventLog>>]_vars

\* After an election with one vote the owner's setChoices call was rejected
\* for a blank label; the choices and the counted vote are still there.
C26_Witness ==
    /\ txStatus = EmptyChoiceMsg
    /\ endCount = 1
    /\ Len(choices) >= 1
    /\ SumVotes(choices) = 1

\* A step taken while no election runs that commits neither setChoices nor
\* startElection keeps the choices, their counts and the winner.
ResultsKept ==
    (~electionActive /\ lastTx'.op \notin {"setChoices", "startElection"}) =>
       /\ choices' = choices
       /\ getWinnerOf(choices') = getWinnerOf(choices)

\* C27: after endElection the results are locked in.  While no election
\* runs every vote call is rejected with "Election not active", and the
\* counts and getWinner() change in no step but the owner's committed
\* setChoices or startElection.
C27_ResultsLockedAfterEnd ==
    /\ [](~electionActive =>
            \A c \in Addresses : \A i \in 0..MaxChoices :
               voteCheck(c, i) = NotActiveMsg)
    /\ [][ResultsKept]_vars

\* An election with two votes has ended and the owner has since replaced
\* the whitelist: the two votes are still counted.
C27_Witness ==
    /\ ~electionActive
    /\ endCount = 1
    /\ lastTx.op = "setWhitelist"
    /\ SumVotes(choices) = 2
    /\ getWinnerOf(choices).votes >= 1

\* The writes of the two timestamps, step by step.
TimestampStep ==
    /\ startCount' # startCount =>
          (electionStart' = blockTimestamp' /\ electionEnd' = 0)
    /\ endCount' # endCount =>
          (electionEnd' = blockTimestamp' /\ electionStart' = electionStart)
    /\ (startCount' = startCount /\ endCount' = endCount) =>
          UNCHANGED <<electionStart, electionEnd>>

\* C28: a committed startElection stores the block's timestamp as start and
\* clears the end, a committed endElection stores the block's timestamp as
\* end, and no other step writes either.  So while an election runs the end
\* timestamp is 0, and when none runs after at least one start the end
\* timestamp is set and is not earlier than the start timestamp.
C28_Timestamps ==
    /\ [](electionActive => electionEnd = 0)
    /\ []((~electionActive /\ electionId >= 1) =>
            (electionEnd > 0 /\ electionEnd >= electionStart))
    /\ [][TimestampStep]_vars

\* The second election started at 2 and ended at 3.
C28_Witness ==
    /\ ~electionActive
    /\ electionId = 2
    /\ electionStart = 2
    /\ electionEnd = 3
    /\ lastTx.op = "endElection"

\* C29 (roster contract): a start that follows an end with no
\* reconfiguration in between leaves every count at 0 and every roster entry
\* at voted = FALSE.
C29_RosterStartResets ==
    [][(lastTx.op = "endElection" /\ startCount' = startCount + 1) =>
          /\ \A k \in DOMAIN choices' : choices'[k].votes = 0
          /\ \A k \in DOMAIN rosterVoters' : rosterVoters'[k].voted = FALSE]_vars

\* C30 (roster contract): in one election a sender commits at most one vote
\* call.
C30_RosterOneVotePerAddress ==
    \A c \in Addresses : voteCommits[c][startCount] <= 1

\* The steps of the roster contract that bear on an entry's voted flag.
RosterVoteStep ==
    /\ (\E c \in Addresses : VoteCommitted(c)) =>
          LET k == lastTx'.arg[1] IN
          /\ electionActive
          /\ k < Len(rosterVoters)
          /\ ~rosterVoters[k + 1].voted
          /\ rosterVoters'[k + 1].voted
          /\ \A j \in DOMAIN rosterVoters :
                j # k + 1 => rosterVoters'[j] = rosterVoters[j]
    /\ (electionActive /\ electionActive') =>
          /\ Len(rosterVoters') = Len(rosterVoters)
          /\ \A j \in DOMAIN rosterVoters :
                rosterVoters[j].voted => rosterVoters'[j].voted

\* C31 (roster contract): a roster entry votes at most once per election.
\* A vote commits only for an entry whose voted flag is not set and sets it;
\* while the election runs the roster keeps its length and no flag is
\* cleared; and a vote call naming an entry whose flag is set, with a valid
\* choice, is rejected with "Already voted".
C31_RosterEntryVotesOnce ==
    /\ [](electionActive =>
            \A k \in 0..(Len(rosterVoters) - 1) : \A i \in 0..(Len(choices) - 1) :
               rosterVoters[k + 1].voted => rosterVoteCheck(k, i) = AlreadyVotedMsg)
    /\ [][RosterVoteStep]_vars

\* Entry 1 of a roster of two has just voted; a second vote naming it is
\* rejected, one naming entry 0 is not.
C31_Witness ==
    /\ electionActive
    /\ Len(rosterVoters) = 2
    /\ lastTx.op = "vote"
    /\ lastTx.arg[1] = 1
    /\ rosterVoters[2].voted
    /\ rosterVoteCheck(1, 0) = AlreadyVotedMsg
    /\ rosterVoteCheck(0, 0) = OK

\* The identities whose membership flag is set.
Whitelisted == {a \in AddrSpace : isWhitelisted[a]}

\* A committed setWhitelist leaves exactly the listed identities flagged.
SetWhitelistReplaces ==
    (lastTx'.op = "setWhitelist" /\ setWhitelistCheck(lastTx'.sender, lastTx'.arg) = OK
       /\ <<isWhitelisted, whitelistAddresses>>' # <<isWhitelisted, whitelistAddresses>>)
    => {a \in AddrSpace : isWhitelisted'[a]} = Range(lastTx'.arg)

\* C32: every identity whose membership flag is set has an entry in the
\* enumeration sequence; hence a committed setWhitelist that changes the
\* whitelist leaves exactly the listed identities flagged, and the count of
\* active members that startElection takes is positive exactly when some
\* identity is whitelisted.
C32_FlaggedAreTracked ==
    /\ [](/\ Whitelisted \subseteq Range(whitelistAddresses)
          /\ (activeWhitelistCount > 0) <=> (Whitelisted # {}))
    /\ [][SetWhitelistReplaces]_vars

\* Identity 1 was a member and voted; a later setWhitelist naming only
\* identity 2 cleared it, and the active count is positive.
C32_Witness ==
    /\ lastTx.op = "setWhitelist"
    /\ lastVotedElection[1] = 1
    /\ Whitelisted = {2}
    /\ Range(whitelistAddresses) = {2}
    /\ activeWhitelistCount > 0

\* C33: whenever voterStatus(a) reports voted with choice index c, for an
\* identity that did commit a vote in the current epoch, c is a valid index
\* and choiceInfo(c) has a vote count of at least 1: during the election,
\* after its end and after the choices have been reconfigured.
C33_VotedIndexIsValid ==
    \A a \in Addresses :
       (voterStatus(a).voted /\ voteCommits[a][electionId] >= 1) =>
          /\ choiceInfoCheck(voterStatus(a).choiceIndex) = OK
          /\ choiceInfo(voterStatus(a).choiceIndex).votes >= 1

\* C34: in every active state the epoch is at least 1, there is at least
\* one choice, at least one identity is whitelisted, and the vote counts add
\* up to at most the number of whitelisted identities.
C34_ActiveStateShape ==
    electionActive =>
       /\ electionId >= 1
       /\ choiceCount >= 1
       /\ Whitelisted # {}
       /\ SumVotes(choices) <= Cardinality(Whitelisted)

\* An active election in which every whitelisted identity has voted, so the
\* sum of the counts meets its bound.
C34_Witness ==
    /\ electionActive
    /\ Cardinality(Whitelisted) = 2
    /\ SumVotes(choices) = 2

\* C35: every identity's lastVotedElection is at most the current epoch, and
\* it is at least 1 exactly for the identities that ever committed a vote.
C35_LastVotedEpochBounds ==
    \A a \in Addresses :
       /\ lastVotedElection[a] <= electionId
       /\ (lastVotedElection[a] >= 1) <=> (\E e \in 0..MaxEpoch : voteCommits[a][e] >= 1)

\* In epoch 2, identity 1 carries its vote of epoch 1 and identity 2 has
\* never voted.
C35_Witness ==
    /\ electionId = 2
    /\ lastVotedElection[1] = 1
    /\ voteCommits[1][1] = 1
    /\ lastVotedElection[2] = 0
    /\ \A e \in 0..MaxEpoch : voteCommits[2][e] = 0

\* How many of the first k log entries carry the given event name.
LogCount(name, k) == Cardinality({j \in 1..k : eventLog[j].name = name})

\* Started entries minus ended entries among the first k log entries.
LogOpen(k) == LogCount("ElectionStarted", k) - LogCount("ElectionEnded", k)

ConfigEvents ==
    {"PollTitleSet", "ChoicesSet", "WhitelistSet", "WhitelistAdded", "WhitelistRemoved"}

\* C36: in the event log ElectionStarted and ElectionEnded strictly
\* alternate, beginning with ElectionStarted; the number of ElectionStarted
\* entries is the epoch; every VoteCast lies after an ElectionStarted and
\* before the next ElectionEnded; every PollTitleSet, ChoicesSet,
\* WhitelistSet, WhitelistAdded and WhitelistRemoved lies outside such an
\* interval.
C36_LogShape ==
    /\ \A k \in DOMAIN eventLog :
          /\ eventLog[k].name = "ElectionStarted" => LogOpen(k - 1) = 0
          /\ eventLog[k].name = "ElectionEnded" => LogOpen(k - 1) = 1
          /\ eventLog[k].name = "VoteCast" => LogOpen(k - 1) = 1
          /\ eventLog[k].name \in ConfigEvents => LogOpen(k - 1) = 0
    /\ LogCount("ElectionStarted", Len(eventLog)) = electionId

\* A configured election with one vote, started and ended: five entries.
C36_Witness ==
    /\ Len(eventLog) = 5
    /\ [k \in 1..5 |-> eventLog[k].name] =
          <<"ChoicesSet", "WhitelistSet", "ElectionStarted", "VoteCast", "ElectionEnded">>
    /\ electionId = 1

\* C37: right after a committed setWhitelist(voters), the count carried by
\* the WhitelistSet event equals whitelistCount() and equals the number of
\* whitelisted identities, whatever the list, repeated identities included.
C37_WhitelistSetCount ==
    lastTx.op = "setWhitelist" =>
       /\ lastTx.logs[1].name = "WhitelistSet"
       /\ lastTx.logs[1].args[1] = whitelistCount
       /\ whitelistCount = Cardinality(Whitelisted)

\* The roster entries whose voted flag is set.
RosterVoted == {k \in DOMAIN rosterVoters : rosterVoters[k].voted}

\* C38 (roster contract): the vote counts add up to the number of roster
\* entries with voted = true, and every such entry's choiceIndex is below
\* choiceCount(); also after setChoices or setVoters between elections.
C38_RosterCountsMatchFlags ==
    /\ SumVotes(choices) = Cardinality(RosterVoted)
    /\ \A k \in RosterVoted : rosterVoters[k].choiceIndex < choiceCount

\* Some choice index present before and after the step has a lower count after.
CountDecreases ==
    \E k \in DOMAIN choices \cap DOMAIN choices' : choices'[k].votes < choices[k].votes

CountsStep ==
    /\ (electionActive /\ electionActive') =>
          /\ Len(choices') = Len(choices)
          /\ \A k \in DOMAIN choices : choices'[k].votes >= choices[k].votes
    /\ CountDecreases =>
          /\ lastTx'.op \in {"startElection", "setChoices"}
          /\ \A k \in DOMAIN choices' : choices'[k].votes = 0
    /\ (lastTx'.op = "setChoices" /\ choices' # choices) => Len(choices') >= 1
    /\ Len(choices) >= 1 => Len(choices') >= 1

\* C39: between two active states no count decreases and the list keeps its
\* length; a count decreases only in a step committed by startElection or
\* setChoices, after which every count is 0; a committed setChoices leaves
\* at least one choice, and once there is a choice there is one in every
\* later state.
C39_CountsMonotone ==
    /\ [][CountsStep]_vars
    /\ [](lastTx.op = "setChoices" => choiceCount >= 1)

\* A second election has been started after one with a vote for choice 0:
\* the count went back to 0 by startElection.
C39_Witness ==
    /\ electionActive
    /\ electionId = 2
    /\ lastTx.op = "startElection"
    /\ \E a \in Addresses : lastVotedElection[a] = 1 /\ lastVotedChoice[a] = 0
    /\ choiceCount >= 1
    /\ choices[1].votes = 0
====
